---- MODULE Spec2Model ----
(***************************************************************************)
(* Model of the N-body universe simulation:                                *)
(*   src/src/sim.rs        Simulation2D (bodies with ids, step, step_rk4,  *)
(*                         force law, coordinate mapper, generator)        *)
(*   src/src/sim/mod.rs    Simulation (State, get_state_derivative, rk4)   *)
(*   src/src/sim/state.rs  State / StateDerivative arithmetic              *)
(*   src/src/render.rs     the rendering thread of the two-thread variant  *)
(*                                                                         *)
(* f64 is modelled as a small binary fixed-point format: a finite value is *)
(* an integer count of 1/ONE units, a result whose magnitude exceeds FMAX  *)
(* overflows to an infinity, and 0/0, inf-inf, 0*inf give NaN, which every *)
(* operation propagates (IEEE-754 rules; the sign of zero is not kept).    *)
(* Quotients and square roots round toward zero.  Physical constants are   *)
(* given in units of length, mass and time chosen so that they are small   *)
(* integers.                                                               *)
(***************************************************************************)
EXTENDS Integers, Sequences, FiniteSets, TLC

\* ------------------------------------------------------------ bounds
\* Largest configured STAR_COUNT the generator is run with.
MaxStarCount == 4
\* Most stepping operations in one run.
MaxSteps == 2

\* ------------------------------------------------------------ f64
\* Fixed-point denominator: a finite f64 x is the integer x*ONE.
ONE == 16
\* Largest finite magnitude (in 1/ONE units); beyond it a result is infinite.
FMAX == 32767

Abs(n) == IF n < 0 THEN -n ELSE n
Sign(n) == IF n < 0 THEN -1 ELSE 1
\* Integer quotient rounded toward zero.
Quot(a, b) == Sign(a) * Sign(b) * (Abs(a) \div Abs(b))

RECURSIVE ISqrtIter(_, _)
ISqrtIter(n, x) ==
    LET y == (x + (n \div x)) \div 2
    IN  IF y >= x THEN x ELSE ISqrtIter(n, y)
\* Largest r with r*r <= n.
ISqrt(n) == IF n <= 0 THEN 0 ELSE ISqrtIter(n, n)

NaN == [k |-> "nan", v |-> 0]
Inf(s) == [k |-> "inf", v |-> s]
\* A finite result, overflowing to an infinity.
Fin(n) == IF Abs(n) > FMAX THEN Inf(Sign(n)) ELSE [k |-> "fin", v |-> n]
\* The f64 with the integer value n.
F(n) == Fin(n * ONE)
IsFinite(a) == a.k = "fin"
IsNaN(a) == a.k = "nan"

fneg(a) == IF a.k = "nan" THEN NaN ELSE [a EXCEPT !.v = -a.v]

fadd(a, b) ==
    IF a.k = "nan" \/ b.k = "nan" THEN NaN
    ELSE IF a.k = "inf" /\ b.k = "inf" THEN (IF a.v = b.v THEN a ELSE NaN)
    ELSE IF a.k = "inf" THEN a
    ELSE IF b.k = "inf" THEN b
    ELSE Fin(a.v + b.v)

fsub(a, b) == fadd(a, fneg(b))

fmul(a, b) ==
    IF a.k = "nan" \/ b.k = "nan" THEN NaN
    ELSE IF a.k = "inf" \/ b.k = "inf"
         THEN (IF a.v = 0 \/ b.v = 0 THEN NaN ELSE Inf(Sign(a.v) * Sign(b.v)))
    ELSE Fin(Quot(a.v * b.v, ONE))

fdiv(a, b) ==
    IF a.k = "nan" \/ b.k = "nan" THEN NaN
    ELSE IF a.k = "inf"
         THEN (IF b.k = "inf" THEN NaN ELSE Inf(Sign(a.v) * Sign(b.v)))
    ELSE IF b.k = "inf" THEN Fin(0)
    ELSE IF b.v = 0 THEN (IF a.v = 0 THEN NaN ELSE Inf(Sign(a.v)))
    ELSE Fin(Quot(a.v * ONE, b.v))

fsqrt(a) ==
    IF a.k = "nan" THEN NaN
    ELSE IF a.k = "inf" THEN (IF a.v > 0 THEN a ELSE NaN)
    ELSE IF a.v < 0 THEN NaN
    ELSE Fin(ISqrt(a.v * ONE))

\* a > b and a < b on f64: false when either side is NaN.
fgt(a, b) ==
    IF a.k = "nan" \/ b.k = "nan" THEN FALSE
    ELSE IF a.k = "inf" THEN a.v > 0 /\ ~(b.k = "inf" /\ b.v > 0)
    ELSE IF b.k = "inf" THEN b.v < 0
    ELSE a.v > b.v
flt(a, b) == fgt(b, a)

\* f64::clamp(self, min, max): NaN stays NaN.
fclamp(a, lo, hi) ==
    IF a.k = "nan" THEN NaN
    ELSE IF flt(a, lo) THEN lo
    ELSE IF fgt(a, hi) THEN hi
    ELSE a

\* ------------------------------------------------------------ Vector2<f64>
Vec(x, y) == [x |-> x, y |-> y]
VZero == Vec(F(0), F(0))
vadd(a, b) == Vec(fadd(a.x, b.x), fadd(a.y, b.y))
vsub(a, b) == Vec(fsub(a.x, b.x), fsub(a.y, b.y))
vneg(a) == Vec(fneg(a.x), fneg(a.y))
vscale(a, s) == Vec(fmul(a.x, s), fmul(a.y, s))
vdiv(a, s) == Vec(fdiv(a.x, s), fdiv(a.y, s))
norm_squared(a) == fadd(fmul(a.x, a.x), fmul(a.y, a.y))
norm(a) == fsqrt(norm_squared(a))
normalize(a) == vdiv(a, norm(a))
VFinite(a) == IsFinite(a.x) /\ IsFinite(a.y)

\* ------------------------------------------------------------ src/src/sim.rs
\* TIMESTEP, in model time units.
TIMESTEP == 1
\* Gravitational constant of sim.rs, in model units.
G == 16
\* Extent of the simulation domain (width and height), in model length units.
DomainExtent == 8
\* Target screen size in pixels.
TargetScreen == 1000

HALF == Fin(ONE \div 2)
T == F(TIMESTEP)

\* The SimulationDomain2D literal of gen_simulation_2d.
sim_domain ==
    [width |-> F(DomainExtent), height |-> F(DomainExtent),
     target_screen_height |-> TargetScreen, target_screen_width |-> TargetScreen]

\* Star2D (luminosity and temperature are display attributes no operation reads).
Star2D(id, position, velocity, mass) ==
    [id |-> id, position |-> position, velocity |-> velocity, mass |-> mass]

\* s.x, s.y, s.m are the three normal samples, s.u the uniform sample.
new_random_star_2d(domain, id, s) ==
    LET x == fclamp(s.x, fdiv(fneg(domain.width), F(2)), fdiv(domain.width, F(2)))
        y == fclamp(s.y, fdiv(fneg(domain.height), F(2)), fdiv(domain.height, F(2)))
        x_vel == fmul(fsub(s.u, HALF), F(0))
        y_vel == fmul(fsub(s.u, HALF), F(0))
    IN  Star2D(id, Vec(x, y), Vec(x_vel, y_vel), s.m)

\* for id in 1..count { stars.push(new_random_star_2d(&sim_domain, id)) }
gen_simulation_2d(count, samples) ==
    [id \in 1..(count - 1) |-> new_random_star_2d(sim_domain, id, samples[id])]

gravitational_force_components(m1, m2, pos1, pos2) ==
    LET displacement == vsub(pos2, pos1)
        r_squared == norm_squared(displacement)
        f == fdiv(fmul(F(G), fmul(m1, m2)), r_squared)
    IN  vscale(normalize(displacement), f)

\* Mutant of force_sweep: no self-interaction guard.
RECURSIVE force_sweep_no_guard(_, _, _)
force_sweep_no_guard(star, old_stars, k) ==
    IF k = 0 THEN [force |-> VZero, calls |-> <<>>]
    ELSE LET acc == force_sweep_no_guard(star, old_stars, k - 1)
             old_star == old_stars[k]
         IN  [force |-> vadd(acc.force,
                             gravitational_force_components(
                                 star.mass, old_star.mass,
                                 star.position, old_star.position)),
              calls |-> Append(acc.calls, k)]

\* The loop of total_gravitational_acceleration over old_stars[1..k]: the summed
\* force, and the entries the force law was evaluated for.
RECURSIVE force_sweep(_, _, _)
force_sweep(star, old_stars, k) ==
    IF k = 0 THEN [force |-> VZero, calls |-> <<>>]
    ELSE LET acc == force_sweep(star, old_stars, k - 1)
             old_star == old_stars[k]
         IN  IF star.id = old_star.id THEN acc
             ELSE [force |-> vadd(acc.force,
                                  gravitational_force_components(
                                      star.mass, old_star.mass,
                                      star.position, old_star.position)),
                   calls |-> Append(acc.calls, k)]

total_gravitational_acceleration(star, old_stars) ==
    vdiv(force_sweep(star, old_stars, Len(old_stars)).force, star.mass)

\* Mutant of step_star: the velocity is updated first and the position update
\* then reads the updated velocity.
step_star_velocity_first(star, old_stars) ==
    LET acceleration == total_gravitational_acceleration(star, old_stars)
        velocity == vadd(star.velocity, vscale(acceleration, T))
    IN  [star EXCEPT
           !.position = vadd(vadd(star.position, vscale(velocity, T)),
                             vscale(vscale(vscale(acceleration, HALF), T), T)),
           !.velocity = velocity]

\* The body of the loop of Simulation2D::step.
step_star(star, old_stars) ==
    LET acceleration == total_gravitational_acceleration(star, old_stars)
    IN  [star EXCEPT
           !.position = vadd(vadd(star.position, vscale(star.velocity, T)),
                             vscale(vscale(vscale(acceleration, HALF), T), T)),
           !.velocity = vadd(star.velocity, vscale(acceleration, T))]

\* The intermediate stars and stage values of Simulation2D::step_rk4 for one star.
rk4_stages(star, old_stars) ==
    LET k1_v == star.velocity
        k1_a == total_gravitational_acceleration(star, old_stars)
        star_k2 == [star EXCEPT
                      !.position = vadd(star.position, vscale(k1_v, fmul(T, HALF))),
                      !.velocity = vadd(star.velocity, vscale(k1_a, fmul(T, HALF)))]
        k2_v == star_k2.velocity
        k2_a == total_gravitational_acceleration(star_k2, old_stars)
        star_k3 == [star EXCEPT
                      !.position = vadd(star.position, vscale(k2_v, fmul(T, HALF))),
                      !.velocity = vadd(star.velocity, vscale(k2_a, fmul(T, HALF)))]
        k3_v == star_k3.velocity
        k3_a == total_gravitational_acceleration(star_k3, old_stars)
        star_k4 == [star EXCEPT
                      !.position = vadd(star.position, vscale(k3_v, T)),
                      !.velocity = vadd(star.velocity, vscale(k3_a, T))]
        k4_v == star_k4.velocity
        k4_a == total_gravitational_acceleration(star_k4, old_stars)
    IN  [k1_v |-> k1_v, k1_a |-> k1_a, k2_v |-> k2_v, k2_a |-> k2_a,
         k3_v |-> k3_v, k3_a |-> k3_a, k4_v |-> k4_v, k4_a |-> k4_a,
         star_k2 |-> star_k2, star_k3 |-> star_k3, star_k4 |-> star_k4]

\* The body of the loop of Simulation2D::step_rk4.
\* The stages are bound once (s ranges over the one-element set holding them)
\* and combined with the weights 1, 2, 2, 1 over 6.
step_rk4_star(star, old_stars) ==
    CHOOSE r \in
      { LET sixth == fdiv(T, F(6))
            sum_v == vadd(vadd(vadd(s.k1_v, vscale(s.k2_v, F(2))),
                               vscale(s.k3_v, F(2))), s.k4_v)
            sum_a == vadd(vadd(vadd(s.k1_a, vscale(s.k2_a, F(2))),
                               vscale(s.k3_a, F(2))), s.k4_a)
        IN  [star EXCEPT
               !.position = vadd(star.position, vscale(sum_v, sixth)),
               !.velocity = vadd(star.velocity, vscale(sum_a, sixth))]
        : s \in { rk4_stages(star, old_stars) } } : TRUE

\* for star in &mut self.stars, visiting the indices order[k..]: each star is
\* replaced in place while old_stars stays the clone taken before the loop.
RECURSIVE sweep(_, _, _, _, _)
sweep(rk, cur, old_stars, order, k) ==
    IF k > Len(order) THEN cur
    ELSE CHOOSE r \in
           { sweep(rk, [cur EXCEPT ![order[k]] = star], old_stars, order, k + 1)
             : star \in { IF rk THEN step_rk4_star(cur[order[k]], old_stars)
                          ELSE step_star(cur[order[k]], old_stars) } } : TRUE

\* Vec iteration order.
VecOrder(v) == [i \in 1..Len(v) |-> i]

\* Mutant of Simulation2D_step: the sweep starts at the second star and the
\* first is lost.
Simulation2D_step_skip_first(self_stars) ==
    LET old_stars == self_stars
    IN  IF self_stars = <<>> THEN <<>>
        ELSE Tail(sweep(FALSE, self_stars, old_stars, VecOrder(self_stars), 1))

Simulation2D_step(self_stars) ==
    LET old_stars == self_stars
    IN  sweep(FALSE, self_stars, old_stars, VecOrder(self_stars), 1)

Simulation2D_step_rk4(self_stars) ==
    LET old_stars == self_stars
    IN  sweep(TRUE, self_stars, old_stars, VecOrder(self_stars), 1)

\* ------------------------------------------------------------ src/src/sim/state.rs
State(positions, velocities) == [positions |-> positions, velocities |-> velocities]
StateDerivative(velocities, accelerations) ==
    [velocities |-> velocities, accelerations |-> accelerations]

\* impl Add for State: one entry per entry of self, rhs read at the same index.
state_add(self, rhs) ==
    State([i \in 1..Len(self.positions) |-> vadd(self.positions[i], rhs.positions[i])],
          [i \in 1..Len(self.velocities) |-> vadd(self.velocities[i], rhs.velocities[i])])

\* impl Add for StateDerivative
deriv_add(self, rhs) ==
    StateDerivative(
        [i \in 1..Len(self.velocities) |-> vadd(self.velocities[i], rhs.velocities[i])],
        [i \in 1..Len(self.accelerations) |->
            vadd(self.accelerations[i], rhs.accelerations[i])])

\* impl Mul<f64> for StateDerivative
deriv_mul(self, rhs) ==
    StateDerivative(
        [i \in 1..Len(self.velocities) |-> vscale(self.velocities[i], rhs)],
        [i \in 1..Len(self.accelerations) |-> vscale(self.accelerations[i], rhs)])

\* StateDerivative::to_state
to_state(self) == State(self.velocities, self.accelerations)

\* ------------------------------------------------------------ src/src/sim/mod.rs
\* Gravitational constant of sim/mod.rs, in model units.
sim_G == 64

\* Simulation::new_3body: the literals in model units (lengths and velocities
\* times 4), rounded to the fixed-point format.
new_3body(dt) ==
    LET positions == << Vec(Fin(-20), F(0)), Vec(Fin(10), Fin(-6)), Vec(Fin(10), Fin(6)) >>
        velocities == << Vec(F(0), Fin(-32)), Vec(Fin(-76), Fin(16)), Vec(Fin(76), Fin(16)) >>
        initial_state == State(positions, velocities)
        masses == << fdiv(F(1), F(3)), fdiv(F(1), F(3)), fdiv(F(1), F(3)) >>
    IN  [initial_state |-> initial_state, masses |-> masses, time |-> F(0), dt |-> dt]

\* The index pairs the nested loops of get_state_derivative visit from (i, j) on,
\* in order, for len bodies (len >= 1).
RECURSIVE pair_loop(_, _, _)
pair_loop(len, i, j) ==
    IF i > len - 1 THEN <<>>
    ELSE IF j > len THEN pair_loop(len, i + 1, i + 2)
    ELSE << <<i, j>> >> \o pair_loop(len, i, j + 1)

\* The accelerations after the loop body has run for pairs[1..k].
RECURSIVE deriv_loop(_, _, _, _)
deriv_loop(state, masses, pairs, k) ==
    IF k = 0 THEN [i \in 1..Len(state.positions) |-> VZero]
    ELSE LET acc == deriv_loop(state, masses, pairs, k - 1)
             i == pairs[k][1]
             j == pairs[k][2]
             m1 == masses[i]
             m2 == masses[j]
             r_vec == vsub(state.positions[j], state.positions[i])
             r == norm(r_vec)
             force == vdiv(vscale(r_vec, fmul(fmul(F(sim_G), m1), m2)),
                           fmul(fmul(r, r), r))
             a1 == vscale(force, fdiv(F(1), m1))
             a2 == vscale(vneg(force), fdiv(F(1), m2))
         IN  [acc EXCEPT ![i] = vadd(acc[i], a1), ![j] = vadd(acc[j], a2)]

get_state_derivative(state, masses) ==
    LET pairs == pair_loop(Len(state.positions), 1, 2)
    IN  StateDerivative(state.velocities,
                        deriv_loop(state, masses, pairs, Len(pairs)))

\* evaluate is the fn(State, &Vec<f64>) -> StateDerivative parameter of rk4; step,
\* its only caller, passes get_state_derivative.
evaluate(state, masses) == get_state_derivative(state, masses)

rk4(state, masses, dt) ==
    LET k1 == evaluate(state, masses)
        k2 == evaluate(state_add(state, to_state(deriv_mul(deriv_mul(k1, HALF), dt))),
                       masses)
        k3 == evaluate(state_add(state, to_state(deriv_mul(deriv_mul(k2, HALF), dt))),
                       masses)
        k4 == evaluate(state_add(state, to_state(deriv_mul(k3, dt))), masses)
        x_prime == deriv_mul(
                       deriv_add(deriv_add(deriv_add(k1, deriv_mul(k2, F(2))),
                                           deriv_mul(k3, F(2))), k4),
                       fdiv(F(1), F(6)))
    IN  state_add(state, to_state(deriv_mul(x_prime, dt)))

step(state, masses, dt) ==
    LET old_state == state
        new_state == rk4(old_state, masses, dt)
    IN  new_state

\* ------------------------------------------------------------ coordinate mapper
None == [some |-> FALSE, x |-> F(0), y |-> F(0)]
Some(x, y) == [some |-> TRUE, x |-> x, y |-> y]

\* Mutant of point2d_to_screen_coords: the frame edge itself is out of frame.
point2d_to_screen_coords_edge_out(pos, screen_size, domain) ==
    LET x_norm == fdiv(fmul(F(2), pos.x), domain.width)
        y_norm == fdiv(fmul(F(2), pos.y), domain.height)
        screen_x == fmul(x_norm, fdiv(F(domain.target_screen_width), F(screen_size[1])))
        screen_y == fmul(y_norm, fdiv(F(domain.target_screen_height), F(screen_size[2])))
    IN  IF \/ ~flt(screen_x, F(1)) \/ ~fgt(screen_x, F(-1))
           \/ ~flt(screen_y, F(1)) \/ ~fgt(screen_y, F(-1))
        THEN None
        ELSE Some(screen_x, screen_y)

\* pos: SimVector, screen_size: (u32, u32) as <<width, height>>.
point2d_to_screen_coords(pos, screen_size, domain) ==
    LET screen_width == screen_size[1]
        screen_height == screen_size[2]
        x_norm == fdiv(fmul(F(2), pos.x), domain.width)
        y_norm == fdiv(fmul(F(2), pos.y), domain.height)
        x_transform == fdiv(F(domain.target_screen_width), F(screen_width))
        y_transform == fdiv(F(domain.target_screen_height), F(screen_height))
        screen_x == fmul(x_norm, x_transform)
        screen_y == fmul(y_norm, y_transform)
    IN  IF \/ fgt(screen_x, F(1)) \/ flt(screen_x, F(-1))
           \/ fgt(screen_y, F(1)) \/ flt(screen_y, F(-1))
        THEN None
        ELSE Some(screen_x, screen_y)

\* ------------------------------------------------------------ src/src/render.rs
\* Spacing of the f32 values, in 1/ONE units: f32 keeps fewer fraction bits.
F32_STEP == 2

\* `x as f32`: the nearest f32, ties to even; NaN and the infinities are kept.
as_f32(a) ==
    IF a.k # "fin" THEN a
    ELSE LET q == a.v \div F32_STEP
             r == a.v % F32_STEP
         IN  IF r = 0 THEN a
             ELSE IF 2 * r < F32_STEP THEN Fin(q * F32_STEP)
             ELSE IF 2 * r > F32_STEP THEN Fin((q + 1) * F32_STEP)
             ELSE IF q % 2 = 0 THEN Fin(q * F32_STEP)
             ELSE Fin((q + 1) * F32_STEP)

\* Vertex { position: [screen_x as f32, screen_y as f32] }
Vertex(position) == <<as_f32(position.x), as_f32(position.y)>>

\* main.rs: the point of one star in a frame, unwrap_or_else(|| (2.0, 2.0)).
frame_point(coords) ==
    IF coords.some THEN Vertex(Vec(coords.x, coords.y)) ELSE Vertex(Vec(F(2), F(2)))

\* ------------------------------------------------------------ state
VARIABLES
    variant,      \* which program runs: "2d" (main.rs on Simulation2D), "sim"
                  \* (sim::step on a Simulation), "threads", "map"
    star_count,   \* the STAR_COUNT the Simulation2D was generated with
    stars,        \* Simulation2D.stars
    pre_stars,    \* history: stars before the last stepping operation
    last,         \* history: the last operation
    steps,        \* history: number of stepping operations so far
    sim,          \* the Simulation (masses, initial_state, time, dt)
    state,        \* the State the stepping loop holds
    pre_state,    \* history: state before the last sim::step
    slot,         \* the State inside Arc<Mutex<State>>
    lock,         \* holder of the mutex: "none", "stepper", "renderer"
    pcS,          \* stepping thread's position
    pcR,          \* rendering thread's position
    widx,         \* stepping thread: next body to copy into the slot
    point_positions, \* renderer: the Vec<Vertex> of the current frame
    completed,    \* history: the state the last fully completed step published
    at_lock,      \* history: completed, when the renderer last took the lock
    screen_size,  \* framebuffer dimensions of the last mapped frame
    screen_coords \* the mapped points of the last frame

vars2D == <<star_count, stars, pre_stars>>
varsSim == <<sim, state, pre_state>>
varsThreads == <<slot, lock, pcS, pcR, widx, point_positions, completed, at_lock>>
varsMap == <<screen_size, screen_coords>>
vars == <<variant, last, steps, vars2D, varsSim, varsThreads, varsMap>>

EmptyState == State(<<>>, <<>>)
Idle2D == star_count = 0 /\ stars = <<>> /\ pre_stars = <<>>
IdleSim ==
    /\ sim = [initial_state |-> EmptyState, masses |-> <<>>, time |-> F(0), dt |-> F(0)]
    /\ state = EmptyState
    /\ pre_state = EmptyState
IdleThreads ==
    /\ slot = EmptyState /\ lock = "none" /\ pcS = "off" /\ pcR = "off" /\ widx = 0
    /\ point_positions = <<>> /\ completed = EmptyState /\ at_lock = EmptyState
IdleMap == screen_size = <<0, 0>> /\ screen_coords = <<>>

\* Samples the random sources may return for one star: positions inside and
\* outside the domain, two masses.  The uniform sample is only ever multiplied
\* by 0.0.
StarSamples ==
    { [x |-> F(-5), y |-> F(0),  m |-> F(2), u |-> F(0)],
      [x |-> F(0),  y |-> F(0),  m |-> F(1), u |-> F(0)],
      [x |-> F(2),  y |-> F(9),  m |-> F(1), u |-> HALF],
      [x |-> F(0),  y |-> F(3),  m |-> F(2), u |-> F(0)],
      [x |-> F(5),  y |-> F(-6), m |-> F(1), u |-> HALF] }

\* main: let mut sim = Simulation2D::gen_simulation_2d();
Init2D ==
    /\ variant = "2d"
    /\ \E n \in 1..MaxStarCount :
         \E samples \in [1..(n - 1) -> StarSamples] :
           /\ star_count = n
           /\ stars = gen_simulation_2d(n, samples)
    /\ pre_stars = stars
    /\ last = "gen"
    /\ steps = 0
    /\ IdleSim /\ IdleThreads /\ IdleMap

Step ==
    /\ variant = "2d"
    /\ steps < MaxSteps
    /\ stars' = Simulation2D_step(stars)
    /\ pre_stars' = stars
    /\ last' = "step"
    /\ steps' = steps + 1
    /\ UNCHANGED <<variant, star_count, varsSim, varsThreads, varsMap>>

StepRk4 ==
    /\ variant = "2d"
    /\ steps < MaxSteps
    /\ stars' = Simulation2D_step_rk4(stars)
    /\ pre_stars' = stars
    /\ last' = "step_rk4"
    /\ steps' = steps + 1
    /\ UNCHANGED <<variant, star_count, varsSim, varsThreads, varsMap>>

\* Timesteps a caller may pass to new_3body.
DtSamples == { Fin(-1), F(0), Fin(1), Fin(2) }

\* Simulations a caller builds from the public fields: one body, two bodies,
\* two bodies at the same coordinates.
LiteralSims ==
    { [initial_state |-> State(<< Vec(F(1), F(0)) >>, << Vec(Fin(4), F(0)) >>),
       masses |-> << F(1) >>, time |-> F(0), dt |-> Fin(2)],
      [initial_state |-> State(<< Vec(F(-1), F(0)), Vec(F(1), F(0)) >>,
                               << Vec(F(0), Fin(8)), Vec(F(0), Fin(-8)) >>),
       masses |-> << F(1), F(1) >>, time |-> F(0), dt |-> Fin(1)],
      [initial_state |-> State(<< Vec(F(1), F(1)), Vec(F(1), F(1)) >>,
                               << Vec(F(0), F(0)), Vec(Fin(4), F(0)) >>),
       masses |-> << F(1), F(2) >>, time |-> F(0), dt |-> Fin(1)] }

InitSim ==
    /\ variant = "sim"
    /\ sim \in { new_3body(dt) : dt \in DtSamples } \cup LiteralSims
    /\ state = sim.initial_state
    /\ pre_state = state
    /\ last = "new"
    /\ steps = 0
    /\ Idle2D /\ IdleThreads /\ IdleMap

\* state = step(state, &masses, dt)
SimStep ==
    /\ variant = "sim"
    /\ steps < MaxSteps
    /\ state' = step(state, sim.masses, sim.dt)
    /\ pre_state' = state
    /\ last' = "sim_step"
    /\ steps' = steps + 1
    /\ UNCHANGED <<variant, sim, vars2D, varsThreads, varsMap>>

Init == Init2D \/ InitSim
Next == Step \/ StepRk4 \/ SimStep
Spec == Init /\ [][Next]_vars

\* ------------------------------------------------------------ one frame of main.rs
\* Positions a star of the simulation may have reached when a frame is drawn.
MapPositions ==
    { Vec(x, y) : x \in {F(-5), F(-4), F(0), F(3), F(4), F(5)},
                  y \in {F(-5), F(0), F(4)} }
      \cup { Vec(NaN, NaN), Vec(Inf(1), F(0)) }

\* Framebuffer dimensions the display may report.
FramebufferWidths == {0, 500, 1000, 2000}
FramebufferHeights == {500, 1000, 2000}

InitMap ==
    /\ variant = "map"
    /\ star_count = 2
    /\ \E pos \in MapPositions : stars = << Star2D(1, pos, VZero, F(1)) >>
    /\ pre_stars = stars
    /\ last = "gen"
    /\ steps = 0
    /\ IdleSim /\ IdleThreads /\ IdleMap

\* main.rs 76-83: the stars of the simulation mapped to the points of a frame.
MapFrame ==
    /\ variant = "map"
    /\ \E w \in FramebufferWidths, h \in FramebufferHeights :
         /\ screen_size' = <<w, h>>
         /\ screen_coords' =
              [i \in 1..Len(stars) |->
                 point2d_to_screen_coords(stars[i].position, <<w, h>>, sim_domain)]
    /\ point_positions' = [i \in 1..Len(stars) |-> frame_point(screen_coords'[i])]
    /\ last' = "frame"
    /\ UNCHANGED <<variant, steps, vars2D, varsSim,
                   slot, lock, pcS, pcR, widx, completed, at_lock>>

SpecMap == InitMap /\ [][MapFrame]_vars

\* ------------------------------------------------------------ two threads
\* Timesteps of the two-thread variant.
ThreadDt == { Fin(1), Fin(2) }

InitThreads ==
    /\ variant = "threads"
    /\ sim \in { new_3body(dt) : dt \in ThreadDt }
    /\ state = sim.initial_state
    /\ pre_state = state
    /\ slot = sim.initial_state
    /\ lock = "none"
    /\ pcS = "compute"
    /\ pcR = "start"
    /\ widx = 0
    /\ point_positions = <<>>
    /\ completed = sim.initial_state
    /\ at_lock = sim.initial_state
    /\ last = "spawn"
    /\ steps = 0
    /\ Idle2D /\ IdleMap

Running == variant = "threads" /\ pcR # "exited"

\* The stepping thread: the next state is computed from the thread's own state,
\* outside the lock.
StepperCompute ==
    /\ Running /\ pcS = "compute" /\ steps < MaxSteps
    /\ state' = step(state, sim.masses, sim.dt)
    /\ pre_state' = state
    /\ pcS' = "lock"
    /\ UNCHANGED <<variant, last, steps, sim, vars2D, varsMap,
                   slot, lock, pcR, widx, point_positions, completed, at_lock>>

StepperLock ==
    /\ Running /\ pcS = "lock" /\ lock = "none"
    /\ lock' = "stepper"
    /\ widx' = 1
    /\ pcS' = "write"
    /\ UNCHANGED <<variant, last, steps, varsSim, vars2D, varsMap,
                   slot, pcR, point_positions, completed, at_lock>>

\* The slot's contents are replaced, body by body, while the lock is held.
StepperWrite ==
    /\ Running /\ pcS = "write" /\ widx <= Len(state.positions)
    /\ slot' = [slot EXCEPT !.positions[widx] = state.positions[widx],
                            !.velocities[widx] = state.velocities[widx]]
    /\ widx' = widx + 1
    /\ UNCHANGED <<variant, last, steps, varsSim, vars2D, varsMap,
                   lock, pcS, pcR, point_positions, completed, at_lock>>

StepperUnlock ==
    /\ Running /\ pcS = "write" /\ widx > Len(state.positions)
    /\ lock' = "none"
    /\ completed' = state
    /\ steps' = steps + 1
    /\ last' = "sim_step"
    /\ pcS' = "sleep"
    /\ UNCHANGED <<variant, varsSim, vars2D, varsMap,
                   slot, pcR, widx, point_positions, at_lock>>

StepperSleep ==
    /\ Running /\ pcS = "sleep"
    /\ pcS' = "compute"
    /\ UNCHANGED <<variant, last, steps, varsSim, vars2D, varsMap,
                   slot, lock, pcR, widx, point_positions, completed, at_lock>>

\* renderer, lines 29-56: the display is created, or the renderer returns.
RenderStart ==
    /\ Running /\ pcR = "start"
    /\ pcR' \in {"frame", "failed"}
    /\ UNCHANGED <<variant, last, steps, varsSim, vars2D, varsMap,
                   slot, lock, pcS, widx, point_positions, completed, at_lock>>

\* lines 59-65: frame_start, display.draw(), clear_color, an empty point list.
RenderFrameBegin ==
    /\ Running /\ pcR = "frame"
    /\ point_positions' = <<>>
    /\ pcR' = "lock"
    /\ UNCHANGED <<variant, last, steps, varsSim, vars2D, varsMap,
                   slot, lock, pcS, widx, completed, at_lock>>

\* Mutant of RenderLock: the slot is read without waiting for the mutex.
RenderLock_no_exclusion ==
    /\ Running /\ pcR = "lock"
    /\ lock' = "renderer"
    /\ at_lock' = completed
    /\ pcR' = "copy"
    /\ UNCHANGED <<variant, last, steps, varsSim, vars2D, varsMap,
                   slot, pcS, widx, point_positions, completed>>

\* line 68: state_container.lock().unwrap()
RenderLock ==
    /\ Running /\ pcR = "lock" /\ lock = "none"
    /\ lock' = "renderer"
    /\ at_lock' = completed
    /\ pcR' = "copy"
    /\ UNCHANGED <<variant, last, steps, varsSim, vars2D, varsMap,
                   slot, pcS, widx, point_positions, completed>>

\* lines 69-73: one iteration of the loop over state.positions.
RenderCopy ==
    /\ Running /\ pcR = "copy" /\ Len(point_positions) < Len(slot.positions)
    /\ point_positions' =
         Append(point_positions, Vertex(slot.positions[Len(point_positions) + 1]))
    /\ UNCHANGED <<variant, last, steps, varsSim, vars2D, varsMap,
                   slot, lock, pcS, pcR, widx, completed, at_lock>>

\* Mutant of RenderUnlock: the guard lives to the end of the closure.
RenderUnlock_keeps_lock ==
    /\ Running /\ pcR = "copy" /\ Len(point_positions) >= Len(slot.positions)
    /\ pcR' = "vertex_buffer"
    /\ UNCHANGED <<variant, last, steps, varsSim, vars2D, varsMap,
                   slot, lock, pcS, widx, point_positions, completed, at_lock>>

\* line 74: the block ends and the guard is dropped.
RenderUnlock ==
    /\ Running /\ pcR = "copy" /\ Len(point_positions) >= Len(slot.positions)
    /\ lock' = "none"
    /\ pcR' = "vertex_buffer"
    /\ UNCHANGED <<variant, last, steps, varsSim, vars2D, varsMap,
                   slot, pcS, widx, point_positions, completed, at_lock>>

\* The renderer's steps after the critical section, in order: lines 76-80,
\* 82, 83, 85-89 and 91-97.
AfterCopy == <<"vertex_buffer", "draw", "finish", "sleep", "events">>

\* lines 76-89: VertexBuffer::new, target.draw, target.finish, thread::sleep.
RenderWork ==
    /\ Running
    /\ \E k \in 1..(Len(AfterCopy) - 1) : pcR = AfterCopy[k] /\ pcR' = AfterCopy[k + 1]
    /\ UNCHANGED <<variant, last, steps, varsSim, vars2D, varsMap,
                   slot, lock, pcS, widx, point_positions, completed, at_lock>>

\* lines 91-97: CloseRequested exits the process, any other event polls again.
RenderEvents ==
    /\ Running /\ pcR = "events"
    /\ pcR' \in {"frame", "exited"}
    /\ UNCHANGED <<variant, last, steps, varsSim, vars2D, varsMap,
                   slot, lock, pcS, widx, point_positions, completed, at_lock>>

NextThreads ==
    \/ StepperCompute \/ StepperLock \/ StepperWrite \/ StepperUnlock \/ StepperSleep
    \/ RenderStart \/ RenderFrameBegin \/ RenderLock \/ RenderCopy \/ RenderUnlock
    \/ RenderWork \/ RenderEvents
SpecThreads == InitThreads /\ [][NextThreads]_vars

\* ------------------------------------------------------------ claims
Stepped2D == variant = "2d" /\ last \in {"step", "step_rk4"}

\* All visiting orders of the indices of a sequence.
Orders(v) == Permutations(1..Len(v))

\* C1: one Simulation2D::step is the simultaneous update from the pre-step
\* snapshot: position' = p + v*dt + 0.5*a*dt^2 and velocity' = v + a*dt with p, v
\* the pre-step values and a computed from the pre-step positions of all bodies,
\* whatever the order the sweep visits the bodies in.
C1_StepIsSimultaneous ==
    (variant = "2d" /\ last = "step") =>
      /\ Len(stars) = Len(pre_stars)
      /\ \A i \in 1..Len(pre_stars) :
           LET p == pre_stars[i].position
               v == pre_stars[i].velocity
               a == total_gravitational_acceleration(pre_stars[i], pre_stars)
           IN  /\ stars[i].position =
                    vadd(vadd(p, vscale(v, T)), vscale(vscale(vscale(a, HALF), T), T))
               /\ stars[i].velocity = vadd(v, vscale(a, T))
      /\ \A order \in Orders(pre_stars) :
           sweep(FALSE, pre_stars, pre_stars, order, 1) = stars

\* C1 witness: a second step of at least two bodies, in which a body that was
\* already moving is accelerated and ends at a finite position.
C1_Witness ==
    /\ variant = "2d" /\ last = "step" /\ steps = 2 /\ Len(stars) >= 2
    /\ \E i \in 1..Len(stars) :
         /\ pre_stars[i].velocity # VZero
         /\ stars[i].velocity # pre_stars[i].velocity
         /\ VFinite(stars[i].position) /\ VFinite(stars[i].velocity)

\* C2: stepping adds and removes no body: the body count is unchanged, body k
\* keeps its index, id and mass, and positions, velocities and masses keep the
\* same length.
C2_BodiesPreserved ==
    /\ variant = "2d" =>
         /\ Len(stars) = Len(pre_stars)
         /\ Len(stars) = star_count - 1
         /\ \A k \in 1..Len(stars) :
              /\ stars[k].id = pre_stars[k].id
              /\ stars[k].id = k
              /\ stars[k].mass = pre_stars[k].mass
    /\ variant = "sim" =>
         /\ Len(state.positions) = Len(pre_state.positions)
         /\ Len(state.positions) = Len(sim.initial_state.positions)
         /\ Len(state.velocities) = Len(state.positions)
         /\ Len(sim.masses) = Len(state.positions)

\* C2 witness: two stepping operations done on three bodies.
C2_Witness ==
    \/ variant = "2d" /\ steps = 2 /\ Len(stars) = 3 /\ last = "step"
    \/ variant = "sim" /\ steps = 2 /\ Len(state.positions) = 3

\* The intermediate stars of stage k2, k3 or k4 of all bodies.
StageStars(old_stars, stage) ==
    [j \in 1..Len(old_stars) |->
        LET s == rk4_stages(old_stars[j], old_stars)
        IN  CASE stage = 2 -> s.star_k2
              [] stage = 3 -> s.star_k3
              [] OTHER -> s.star_k4]

\* C3: in Simulation2D::step_rk4 each of k2, k3, k4 is every body's acceleration
\* from a full pairwise sweep against the intermediate state, the positions of
\* ALL bodies displaced by the scaled previous stage.
C3_StagesUseIntermediateState ==
    (variant = "2d" /\ last = "step_rk4") =>
      \A i \in 1..Len(pre_stars) :
        LET s == rk4_stages(pre_stars[i], pre_stars)
        IN  /\ s.k2_a = total_gravitational_acceleration(
                            s.star_k2, StageStars(pre_stars, 2))
            /\ s.k3_a = total_gravitational_acceleration(
                            s.star_k3, StageStars(pre_stars, 3))
            /\ s.k4_a = total_gravitational_acceleration(
                            s.star_k4, StageStars(pre_stars, 4))

Coincide(p, q) == VFinite(p) /\ p = q

\* C6: no step is ever executed on an invalid configuration: a Simulation that
\* is stepped has a positive timestep, positive masses and at least one body.
C6_NoStepOnInvalidConfig ==
    (variant = "sim" /\ last = "sim_step") =>
      /\ fgt(sim.dt, F(0))
      /\ Len(sim.masses) >= 1
      /\ \A k \in 1..Len(sim.masses) : fgt(sim.masses[k], F(0))

\* C7: when two distinct bodies occupy exactly the same coordinates before a
\* step, every position and velocity component after the step is finite.
C7_ZeroDistanceStaysDefined ==
    /\ ( /\ Stepped2D
         /\ \E i, j \in 1..Len(pre_stars) :
              i # j /\ Coincide(pre_stars[i].position, pre_stars[j].position) )
       => \A k \in 1..Len(stars) :
            VFinite(stars[k].position) /\ VFinite(stars[k].velocity)
    /\ ( /\ variant = "sim" /\ last = "sim_step"
         /\ \E i, j \in 1..Len(pre_state.positions) :
              i # j /\ Coincide(pre_state.positions[i], pre_state.positions[j]) )
       => \A k \in 1..Len(state.positions) :
            VFinite(state.positions[k]) /\ VFinite(state.velocities[k])

\* C8: for a configured body count N the generator produces exactly N bodies,
\* one of them the anchor at the origin, every position component within half
\* the domain extent, all ids distinct.
C8_GeneratorAnchorPlusCloud ==
    (variant = "2d" /\ last = "gen") =>
      /\ Len(stars) = star_count
      /\ \E a \in 1..Len(stars) :
           /\ stars[a].position = VZero
           /\ \A k \in 1..Len(stars) : k # a => fgt(stars[a].mass, stars[k].mass)
      /\ \A k \in 1..Len(stars) :
           /\ ~fgt(stars[k].position.x, fdiv(sim_domain.width, F(2)))
           /\ ~flt(stars[k].position.x, fneg(fdiv(sim_domain.width, F(2))))
           /\ ~fgt(stars[k].position.y, fdiv(sim_domain.height, F(2)))
           /\ ~flt(stars[k].position.y, fneg(fdiv(sim_domain.height, F(2))))
      /\ \A k, l \in 1..Len(stars) : k # l => stars[k].id # stars[l].id

\* The indices of old_stars whose id differs from the star's, in order.
RECURSIVE OtherIds(_, _, _)
OtherIds(star, old_stars, k) ==
    IF k = 0 THEN <<>>
    ELSE IF old_stars[k].id # star.id
         THEN Append(OtherIds(star, old_stars, k - 1), k)
         ELSE OtherIds(star, old_stars, k - 1)

\* C10: no body exerts force on itself: total_gravitational_acceleration
\* evaluates the force law exactly for the entries whose id differs from the
\* body's (also for the displaced RK4 intermediates), get_state_derivative
\* exactly for the index pairs i < j, each once; with one body the acceleration
\* is the zero vector and the force law is never evaluated.
C10_NoSelfForce ==
    /\ Stepped2D =>
         \A i \in 1..Len(pre_stars) :
           LET s == rk4_stages(pre_stars[i], pre_stars)
               n == Len(pre_stars)
               others == OtherIds(pre_stars[i], pre_stars, n)
           IN  /\ Len(others) = n - 1
               /\ \A b \in {pre_stars[i], s.star_k2, s.star_k3, s.star_k4} :
                    force_sweep(b, pre_stars, n).calls = others
               /\ n = 1 =>
                    /\ force_sweep(pre_stars[1], pre_stars, 1).calls = <<>>
                    /\ total_gravitational_acceleration(pre_stars[1], pre_stars) = VZero
                    /\ stars[1].velocity = pre_stars[1].velocity
    /\ (variant = "sim" /\ last = "sim_step") =>
         LET n == Len(pre_state.positions)
             pairs == pair_loop(n, 1, 2)
         IN  /\ {pairs[k] : k \in 1..Len(pairs)} =
                  {<<i, j>> : i \in 1..n, j \in 1..n} \ {<<i, j>> \in (1..n) \X (1..n) : i >= j}
             /\ Len(pairs) = (n * (n - 1)) \div 2
             /\ n = 1 =>
                  /\ get_state_derivative(pre_state, sim.masses).accelerations = <<VZero>>
                  /\ state.velocities = pre_state.velocities

\* C10 witness: a step of a Simulation2D with exactly one body.
C10_Witness ==
    /\ variant = "2d" /\ last = "step" /\ Len(pre_stars) = 1
    /\ VFinite(stars[1].position)

\* C4: every snapshot the renderer copies under the mutex is the complete state
\* the most recent fully completed step had published when the lock was taken
\* (the initial state if none had): no mix of two steps, no partly updated body.
C4_SnapshotIsOneCompletedStep ==
    variant = "threads" =>
      /\ \A k \in 1..Len(point_positions) :
           /\ k <= Len(at_lock.positions)
           /\ point_positions[k] = Vertex(at_lock.positions[k])
      /\ pcR \in {AfterCopy[k] : k \in 1..Len(AfterCopy)} =>
           Len(point_positions) = Len(at_lock.positions)
      /\ lock = "renderer" => slot = at_lock

\* C4 witness: a complete snapshot of a completed step is being drawn while the
\* stepping thread has already published a later one.
C4_Witness ==
    /\ variant = "threads" /\ pcR = "draw"
    /\ Len(point_positions) = 3
    /\ at_lock # sim.initial_state
    /\ completed # at_lock

\* C5: the critical section is copy-only: whoever holds the mutex is copying
\* state in or out; the renderer has released it before it builds the vertex
\* buffer, draws, finishes the frame or sleeps, and no force computation runs
\* under the lock.
C5_CriticalSectionCopyOnly ==
    variant = "threads" =>
      /\ lock = "renderer" => pcR = "copy"
      /\ pcR # "copy" => lock # "renderer"
      /\ lock = "stepper" => pcS = "write"
      /\ pcS \in {"compute", "lock", "sleep"} => lock # "stepper"

\* C5 witness: the renderer draws a finished snapshot while the stepping thread
\* holds the lock and copies the next state in.
C5_Witness ==
    /\ variant = "threads" /\ pcR = "draw" /\ Len(point_positions) = 3
    /\ lock = "stepper" /\ pcS = "write" /\ widx = 2

\* C9: point2d_to_screen_coords returns None exactly when the absolute value of
\* a scaled coordinate 2*pos/extent * target/actual exceeds 1; with the target
\* size as the actual size the domain centre maps to Some((0,0)), a position on
\* the edge to Some, one unit beyond it to None; the stars are not modified.
C9_OutOfFrameExactlyBeyondOne ==
    (variant = "map" /\ last = "frame") =>
      /\ stars = pre_stars
      /\ \A i \in 1..Len(stars) :
           LET pos == stars[i].position
               c == screen_coords[i]
               \* |2 * p * target| > extent * actual, in exact integers
               Beyond(p, extent, target, actual) ==
                   2 * Abs(p.v) * target > extent.v * actual
               same == screen_size = <<sim_domain.target_screen_width,
                                       sim_domain.target_screen_height>>
           IN  /\ (VFinite(pos) /\ screen_size[1] > 0) =>
                    (~c.some <=>
                       \/ Beyond(pos.x, sim_domain.width,
                                 sim_domain.target_screen_width, screen_size[1])
                       \/ Beyond(pos.y, sim_domain.height,
                                 sim_domain.target_screen_height, screen_size[2]))
               /\ (IsNaN(pos.x) /\ IsNaN(pos.y)) => c.some
               /\ (same /\ pos = VZero) => c = Some(F(0), F(0))
               /\ (same /\ pos = Vec(fdiv(sim_domain.width, F(2)), F(0))) => c.some
               /\ (same /\ pos = Vec(fadd(fdiv(sim_domain.width, F(2)), F(1)), F(0)))
                    => ~c.some

\* C9 witness: with the target size as the actual size, a star exactly on the
\* domain edge has been mapped into the frame.
C9_Witness ==
    /\ variant = "map" /\ last = "frame"
    /\ screen_size = <<TargetScreen, TargetScreen>>
    /\ stars[1].position = Vec(F(4), F(0))
    /\ screen_coords[1] = Some(F(1), F(0))

\* The star the force law is evaluated for in stage 1..4 of a step of old_star:
\* the star itself in stage 1 (and in Simulation2D::step), star_k2..star_k4 after.
StageStar(old_star, old_stars, stage) ==
    IF stage = 1 THEN old_star
    ELSE LET s == rk4_stages(old_star, old_stars)
         IN  CASE stage = 2 -> s.star_k2
               [] stage = 3 -> s.star_k3
               [] OTHER -> s.star_k4

\* The force applied to body i from body j in the force evaluation of a stage.
StageForce(old_stars, stage, i, j) ==
    LET star == StageStar(old_stars[i], old_stars, stage)
    IN  gravitational_force_components(star.mass, old_stars[j].mass,
                                       star.position, old_stars[j].position)

\* sum(mass_i * velocity_i) over the bodies 1..k.
RECURSIVE Momentum(_, _, _)
Momentum(masses, velocities, k) ==
    IF k = 0 THEN VZero
    ELSE vadd(Momentum(masses, velocities, k - 1), vscale(velocities[k], masses[k]))

StarMomentum(ss) ==
    Momentum([k \in 1..Len(ss) |-> ss[k].mass],
             [k \in 1..Len(ss) |-> ss[k].velocity], Len(ss))

\* Momentum drift allowed for the rounding of the arithmetic, in units of 1/ONE.
MomentumEpsilon == ONE \div 4

\* |a - b| <= MomentumEpsilon / ONE in both components, all of them finite.
MomentumClose(a, b) ==
    /\ VFinite(a) /\ VFinite(b)
    /\ Abs(a.x.v - b.x.v) <= MomentumEpsilon
    /\ Abs(a.y.v - b.y.v) <= MomentumEpsilon

\* Every force a stage in stages evaluates is finite.
StageForcesFinite(old_stars, stages) ==
    \A stage \in stages : \A i, j \in 1..Len(old_stars) :
      i # j => VFinite(StageForce(old_stars, stage, i, j))

\* The force on i from j is the exact negative of the force on j from i.
StageForcesOpposite(old_stars, stages) ==
    \A stage \in stages : \A i, j \in 1..Len(old_stars) :
      i # j => StageForce(old_stars, stage, i, j)
                 = vneg(StageForce(old_stars, stage, j, i))

AllFinite2D(ss) ==
    \A k \in 1..Len(ss) : VFinite(ss[k].position) /\ VFinite(ss[k].velocity)

\* Simulation2D::step and sim::step conserve momentum: in Simulation2D::step the
\* forces of each pair are exact negatives, and in both the momentum after the
\* step is the momentum before it (up to rounding).
C11_VerletAndSimRk4 ==
    /\ ( /\ variant = "2d" /\ last = "step"
         /\ AllFinite2D(pre_stars) /\ AllFinite2D(stars)
         /\ StageForcesFinite(pre_stars, {1}) )
       => /\ StageForcesOpposite(pre_stars, {1})
          /\ MomentumClose(StarMomentum(stars), StarMomentum(pre_stars))
    /\ ( /\ variant = "sim" /\ last = "sim_step"
         /\ \A k \in 1..Len(state.positions) :
              /\ VFinite(state.positions[k]) /\ VFinite(state.velocities[k])
              /\ VFinite(pre_state.positions[k]) /\ VFinite(pre_state.velocities[k]) )
       => MomentumClose(Momentum(sim.masses, state.velocities, Len(sim.masses)),
                        Momentum(sim.masses, pre_state.velocities, Len(sim.masses)))

\* C11: total momentum sum(mass_i * velocity_i) is conserved across every step
\* of Simulation2D::step, Simulation2D::step_rk4 and sim::step: in every force
\* evaluation that contributes to the step the force applied to body i from
\* body j is the exact negative of the force applied to body j from body i, and
\* the momentum after the step is the momentum before it (up to rounding).
C11_MomentumConserved ==
    /\ C11_VerletAndSimRk4
    /\ ( /\ variant = "2d" /\ last = "step_rk4"
         /\ AllFinite2D(pre_stars) /\ AllFinite2D(stars)
         /\ StageForcesFinite(pre_stars, 1..4) )
       => /\ StageForcesOpposite(pre_stars, 1..4)
          /\ MomentumClose(StarMomentum(stars), StarMomentum(pre_stars))

====
